---- MODULE Spec2Model ----
(***************************************************************************)
(* A model of car_poster_generator.py: the value sanitizer, the            *)
(* specification extractor (CarSpecScraper.get_model_specs), the flag      *)
(* renderer, the poster layout and the image panel                         *)
(* (PosterGenerator.generate_poster), the command line driver (main) and   *)
(* the browser fetch (_fetch_with_selenium).                               *)
(*                                                                         *)
(* A Python str is a sequence of one-character strings; the ellipsis       *)
(* U+2026 is the one element Ellipsis.                                     *)
(* Each component has its own specification (SpecSanitize, ...): the       *)
(* variables of the other components stay idle in it.                      *)
(***************************************************************************)
EXTENDS Integers, Sequences, FiniteSets, TLC

\* ------------------------------------------------------------------ bounds
\* Longest input string given to _sanitize_spec_value.
MaxStrLen == 4
\* Largest max_len given to _sanitize_spec_value.
MaxCap == 3
\* Largest width and height of a small flag rectangle.
MaxSide == 6
\* Largest x and y of a small flag rectangle's corner.
MaxOrigin == 1
\* The mean glyph advance of a rendered value, in steps of the font size.
GlyphSteps == 6
\* Most table rows and image elements, together, of a fetched page.
MaxElements == 2
\* The sides of the decoded images: 1..MaxSmallSide, and sides about the panel's.
MaxSmallSide == 3

\* ------------------------------------------------------- program constants
\* PosterGenerator.__init__ (lines 381-384)
width == 1200
height == 1600
margin == 60
\* generate_poster (lines 476, 522, 528, 541, 557, 569)
ValueFontSize == 24
line_height == 42
max_val_len == 18
mid_label_w == 75
r_label_w == 110
flag_w == 36
\* range(18): the rounds of the polling loop of _fetch_with_selenium
PollRounds == 18
\* len(html) > 5000: the page is taken as loaded
LoadedLen == 5000
flag_h == 24

\* ----------------------------------------------------------------- strings
\* A string literal as the sequence of its characters.
Str(s) == [i \in 1..Len(s) |-> SubSeq(s, i, i)]

\* None as a value no string equals (a string holds one-character elements).
None == <<"None">>
\* The single character U+2026 (HORIZONTAL ELLIPSIS).
Ellipsis == "U+2026"

Min(a, b) == IF a <= b THEN a ELSE b
Max(a, b) == IF a >= b THEN a ELSE b

\* str.isspace() of one character, over the characters the model uses.
IsSpace(c) == c \in {" ", "\n", "\r", "\t"}

RECURSIVE LStrip(_)
LStrip(s) == IF s = <<>> THEN s
             ELSE IF IsSpace(Head(s)) THEN LStrip(Tail(s)) ELSE s

RECURSIVE RStrip(_)
RStrip(s) == IF s = <<>> THEN s
             ELSE IF IsSpace(s[Len(s)]) THEN RStrip(SubSeq(s, 1, Len(s) - 1)) ELSE s

\* str.strip()
Strip(s) == RStrip(LStrip(s))

\* str.replace(a, b) for one-character a and b
Replace(s, a, b) == [i \in 1..Len(s) |-> IF s[i] = a THEN b ELSE s[i]]

\* s[:n] for n >= 0
Take(s, n) == SubSeq(s, 1, Min(n, Len(s)))

LowerLetters == Str("abcdefghijklmnopqrstuvwxyz")
UpperLetters == Str("ABCDEFGHIJKLMNOPQRSTUVWXYZ")

\* str.lower() and str.upper(), over the ASCII letters
LowerChar(c) == IF \E i \in 1..26 : UpperLetters[i] = c
                THEN LowerLetters[CHOOSE i \in 1..26 : UpperLetters[i] = c] ELSE c
UpperChar(c) == IF \E i \in 1..26 : LowerLetters[i] = c
                THEN UpperLetters[CHOOSE i \in 1..26 : LowerLetters[i] = c] ELSE c
Lower(s) == [i \in 1..Len(s) |-> LowerChar(s[i])]
Upper(s) == [i \in 1..Len(s) |-> UpperChar(s[i])]

\* ------------------------------------------------------------- variables
VARIABLES
    s_pc,        \* _sanitize_spec_value: "call" | "done"
    s_v,         \* its argument v (a string, or None)
    s_max_len,   \* its argument max_len
    s_ret,       \* its return value
    f_pc,        \* _draw_country_flag: "call" | "done"
    country_code,\* its argument country_code (a string, or None)
    rect,        \* its arguments x, y, w, h
    pixels,      \* the pixels the ImageDraw primitives have coloured, as <<px, py>>
    p_pc,        \* generate_poster: "call" | "year" | "mid" | "right" | "flag" | "save" | "done"
    brand,       \* its argument brand
    p_specs,     \* its argument specs: a function from keys to strings
    display_specs, \* its local display_specs
    p_i,         \* the row index i of the running column loop
    rows,        \* the value rows drawn so far: [col, key, label, y]
    last_text,   \* the horizontal extent of the last value drawn: [col, x0, x1]
    flag_pixels, \* the pixels of the poster the flag coloured
    saved,       \* whether img.save has written the poster
    g_pc,        \* get_model_specs: "call" | "tier1" | "tier2" | "tier3" | "return" | "done"
    model_url,   \* its argument model_url
    response,    \* what session.get returned (NoneR before the call and when it raised)
    browser_html,\* what _fetch_with_selenium returned (NoneR also when it was not called)
    html,        \* its local html
    specs,       \* its local specs
    g_exc,       \* the exception line 371 caught: "none" | "fetch" | "image"
    g_ret,       \* its return value
    m_pc,        \* main: "call" | "loop" | "poster" | "done"
    args,        \* the parsed command line: demo, brand, model (None when not given)
    models,      \* its local models: the candidates, each [name, url]
    m_i,         \* the index in models of the candidate of the running loop
    selected_model, \* the index in models of its local selected_model
    m_specs,     \* its local specs
    results,     \* what the calls of get_model_specs returned, in order
    posters,     \* the calls of generate_poster: [brand, model, specs]
    im_pc,       \* the image panel of generate_poster: "call" | "done"
    text_h,      \* the heights of the brand and the model text of the header
    im_size,     \* the size <<iw, ih>> of the decoded image
    car_img,     \* the size <<nw, nh>> resize is asked for
    paste_xy,    \* where img.paste put the image (<<>> when it did not)
    sel_pc,      \* _fetch_with_selenium: "call" | "get" | "poll" | "reread" | "final" | "finally" | "done"
    driver,      \* the driver obtained: "uc" | "plain" | "none"
    poll,        \* the round of the polling loop (0 before it)
    sel_html,    \* the last driver.page_source read (NoneR before the first)
    sel_reads,   \* the reads of driver.page_source so far
    sel_ret,     \* what is returned (NoneR for None)
    quits        \* the calls of driver.quit()

sanVars == <<s_pc, s_v, s_max_len, s_ret>>
flagVars == <<f_pc, country_code, rect, pixels>>
posterVars == <<p_pc, brand, p_specs, display_specs, p_i, rows, last_text, flag_pixels, saved>>
extractVars == <<g_pc, model_url, response, browser_html, html, specs, g_exc, g_ret>>
mainVars == <<m_pc, args, models, m_i, selected_model, m_specs, results, posters>>
imageVars == <<im_pc, text_h, im_size, car_img, paste_xy>>
selVars == <<sel_pc, driver, poll, sel_html, sel_reads, sel_ret, quits>>
vars == <<sanVars, flagVars, posterVars, extractVars, mainVars, imageVars, selVars>>

\* What an action of one component leaves alone: the other components.
notSan == <<flagVars, posterVars, extractVars, mainVars, imageVars, selVars>>
notFlag == <<sanVars, posterVars, extractVars, mainVars, imageVars, selVars>>
notPoster == <<sanVars, flagVars, extractVars, mainVars, imageVars, selVars>>
notExtract == <<sanVars, flagVars, posterVars, mainVars, imageVars, selVars>>
notSel == <<sanVars, flagVars, posterVars, extractVars, mainVars, imageVars>>
notImage == <<sanVars, flagVars, posterVars, extractVars, mainVars, selVars>>
notMain == <<sanVars, flagVars, posterVars, extractVars, imageVars, selVars>>

\* A component that is not running: its variables keep these values.
SanIdle == s_pc = "idle" /\ s_v = None /\ s_max_len = 0 /\ s_ret = None

FlagIdle ==
    /\ f_pc = "idle" /\ country_code = None /\ pixels = {}
    /\ rect = [x |-> 0, y |-> 0, w |-> 0, h |-> 0]
NoText == [col |-> "none", x0 |-> 0, x1 |-> 0]
PosterIdle ==
    /\ p_pc = "idle" /\ brand = None /\ p_specs = None /\ display_specs = None
    /\ p_i = 0 /\ rows = <<>> /\ last_text = NoText /\ flag_pixels = {} /\ saved = FALSE
\* None where a dict, a response or a page is expected.
NoneR == [type |-> "None"]
ExtractIdle ==
    /\ g_pc = "idle" /\ model_url = <<>> /\ response = NoneR /\ browser_html = NoneR
    /\ html = NoneR /\ specs = <<>> /\ g_exc = "none" /\ g_ret = NoneR
MainIdle ==
    /\ m_pc = "idle" /\ args = NoneR /\ models = <<>> /\ m_i = 0 /\ selected_model = 0
    /\ m_specs = NoneR /\ results = <<>> /\ posters = <<>>
SelIdle ==
    /\ sel_pc = "idle" /\ driver = "none" /\ poll = 0 /\ sel_html = NoneR
    /\ sel_reads = 0 /\ sel_ret = NoneR /\ quits = 0
ImageIdle ==
    im_pc = "idle" /\ text_h = <<0, 0>> /\ im_size = <<0, 0>> /\ car_img = <<0, 0>> /\ paste_xy = <<>>

\* ------------------------------------------------ _sanitize_spec_value
\* The mutant of C6: the truncation keeps max_len characters, not max_len - 1.
SanitizeKeepsCap(v, max_len) ==
    IF v = None \/ v = <<>> THEN <<>>
    ELSE LET t == Replace(Replace(Strip(v), "\n", " "), "\r", " ")
         IN  IF Len(t) > max_len THEN Append(Take(t, max_len), Ellipsis) ELSE t

\* PosterGenerator._sanitize_spec_value(v, max_len)
_sanitize_spec_value(v, max_len) ==
    IF v = None \/ v = <<>> THEN <<>>
    ELSE LET t == Replace(Replace(Strip(v), "\n", " "), "\r", " ")
         IN  IF Len(t) > max_len THEN Append(Take(t, max_len - 1), Ellipsis) ELSE t

RECURSIVE StringsUpTo(_, _)
StringsUpTo(chars, n) ==
    IF n = 0 THEN {<<>>}
    ELSE LET shorter == StringsUpTo(chars, n - 1)
         IN  shorter \cup {Append(t, c) : t \in {u \in shorter : Len(u) = n - 1}, c \in chars}

InitSanitize ==
    /\ s_pc = "call"
    /\ s_v \in StringsUpTo({"a", " ", "\n", "\r"}, MaxStrLen) \cup {None}
    /\ s_max_len \in 1..MaxCap
    /\ s_ret = None
    /\ FlagIdle /\ PosterIdle /\ ExtractIdle /\ MainIdle /\ ImageIdle /\ SelIdle

SanitizeCall ==
    /\ s_pc = "call"
    /\ s_ret' = _sanitize_spec_value(s_v, s_max_len)
    /\ s_pc' = "done"
    /\ UNCHANGED <<s_v, s_max_len>>
    /\ UNCHANGED notSan

NextSanitize == SanitizeCall
SpecSanitize == InitSanitize /\ [][NextSanitize]_vars

FlagCodes == {Str("DE"), Str("AT"), Str("IT"), Str("FR"), Str("JP"), Str("US"), Str("GB"), Str("KR"), Str("SE"), Str("CZ"), Str("RO"), Str("ES"), Str("IN"), Str("CH"), Str("NL"), Str("BE"), Str("PL"), Str("RU")}
FLAG_DEFINITIONS ==
    [c \in FlagCodes |->
        CASE c \in {Str("DE"), Str("AT"), Str("GB"), Str("KR"), Str("CZ"), Str("ES"), Str("IN"), Str("NL"), Str("RU")} -> [kind |-> "h", n |-> 3]
          [] c = Str("US") -> [kind |-> "h", n |-> 13]
          [] c \in {Str("CH"), Str("PL")} -> [kind |-> "h", n |-> 2]
          [] c \in {Str("IT"), Str("FR"), Str("RO"), Str("BE")} -> [kind |-> "v", n |-> 3]
          [] c = Str("JP") -> [kind |-> "circle", n |-> 2]
          [] c = Str("SE") -> [kind |-> "cross", n |-> 2]]

\* (country_code or '').upper()[:2]
NormCode(code) == IF code = None THEN <<>> ELSE Take(Upper(code), 2)

\* ImageDraw.rectangle([x0, y0, x1, y1], fill=...): both corners are filled.
Rectangle(x0, y0, x1, y1) == {<<px, py>> : px \in x0..x1, py \in y0..y1}

\* ImageDraw.ellipse([cx - r, cy - r, cx + r, cy + r], fill=...): the pixels lie
\* in the bounding box; the model colours the lattice points of the disc.
Ellipse(cx, cy, r) ==
    {p \in Rectangle(cx - r, cy - r, cx + r, cy + r) :
        (p[1] - cx) * (p[1] - cx) + (p[2] - cy) * (p[2] - cy) <= r * r}

\* int(base + i * (size / n)) in double arithmetic, base >= 0: the floor of the
\* exact value, except that a product whose exact value is a whole number K
\* while size / n is not may round to just below K and truncate to K - 1
\* (13 * (15 / 13) = 14.999999999999998).
StripeEdge(base, i, size, n) ==
    {base + ((i * size) \div n)}
        \cup (IF i > 0 /\ (i * size) % n = 0 /\ size % n # 0
              THEN {base + ((i * size) \div n) - 1} ELSE {})

\* int(min(w, h) * 0.35): 0.35 is not a double, so a whole product may truncate
\* to one less.
DiscRadius(w, h) ==
    {(Min(w, h) * 7) \div 20}
        \cup (IF (Min(w, h) * 7) % 20 = 0 /\ Min(w, h) > 0
              THEN {((Min(w, h) * 7) \div 20) - 1} ELSE {})

\* The rectangle the caller asks for: w columns from x, h rows from y.
C8_TargetRect(r) == {<<px, py>> : px \in r.x..(r.x + r.w - 1), py \in r.y..(r.y + r.h - 1)}

\* The flag rectangle of generate_poster on the default canvas with two right
\* rows: flag_x = r_val_end - 36, flag_y = spec_y_start + 2 * 42 + 12.
PosterFlagRect == [x |-> 1082, y |-> 1316, w |-> 36, h |-> 24]

InitFlag ==
    /\ f_pc = "call"
    /\ country_code \in FlagCodes \cup {None, <<>>, Str("de"), Str("XX"), Str("SEK")}
    /\ rect \in {[x |-> x, y |-> y, w |-> w, h |-> h] :
                    x \in 0..MaxOrigin, y \in 0..MaxOrigin, w \in 1..MaxSide, h \in 1..MaxSide}
                 \cup {PosterFlagRect}
    /\ pixels = {}
    /\ SanIdle /\ PosterIdle /\ ExtractIdle /\ MainIdle /\ ImageIdle /\ SelIdle

\* The stripe edges int(base + i * (size / n)) for i = 0..n, computed once each.
RECURSIVE StripeEdges(_, _, _, _)
StripeEdges(base, size, n, i) ==
    IF i = 0 THEN {<<e>> : e \in StripeEdge(base, 0, size, n)}
    ELSE {Append(es, e) : es \in StripeEdges(base, size, n, i - 1),
                          e \in StripeEdge(base, i, size, n)}

\* PosterGenerator._draw_country_flag(draw, country_code, x, y, w, h): the sets
\* of pixels the call can colour (one set, but for the double roundings).
_draw_country_flag(code, r) ==
    IF NormCode(code) = <<>> \/ NormCode(code) \notin FlagCodes THEN {{}}
    ELSE LET kind == FLAG_DEFINITIONS[NormCode(code)].kind
             n == FLAG_DEFINITIONS[NormCode(code)].n
             bg == Rectangle(r.x, r.y, r.x + r.w, r.y + r.h)
             bar_w == Max(2, r.w \div 5)
             bar_h == Max(2, r.h \div 5)
             v_x == r.x + ((r.w - bar_w) \div 2)
             h_y == r.y + ((r.h - bar_h) \div 2)
         IN  CASE kind = "h" ->
                    {UNION {Rectangle(r.x, y[i], r.x + r.w, y[i + 1]) : i \in 1..n} :
                        y \in StripeEdges(r.y, r.h, n, n)}
               [] kind = "v" ->
                    {UNION {Rectangle(x[i], r.y, x[i + 1], r.y + r.h) : i \in 1..n} :
                        x \in StripeEdges(r.x, r.w, n, n)}
               [] kind = "circle" ->
                    {bg \cup Ellipse(r.x + (r.w \div 2), r.y + (r.h \div 2), rad) :
                        rad \in DiscRadius(r.w, r.h)}
               [] kind = "cross" ->
                    {bg \cup Rectangle(v_x, r.y, v_x + bar_w, r.y + r.h)
                        \cup Rectangle(r.x, h_y, r.x + r.w, h_y + bar_h)}

DrawCountryFlag ==
    /\ f_pc = "call"
    /\ pixels' \in _draw_country_flag(country_code, rect)
    /\ f_pc' = "done"
    /\ UNCHANGED <<country_code, rect>>
    /\ UNCHANGED notFlag

NextFlag == DrawCountryFlag
SpecFlag == InitFlag /\ [][NextFlag]_vars

\* C8 (as stated): for a code with a flag definition, the finished flag colours
\* every pixel of the w-by-h rectangle at (x, y) and no pixel outside it.
C8_FillsExactlyTheRectangle ==
    (f_pc = "done" /\ NormCode(country_code) \in FlagCodes) => pixels = C8_TargetRect(rect)
\* -------------------------------------------------------- generate_poster
\* BRAND_COUNTRY, by country: the brands (lower case) of each country code.  The
\* one non-ASCII character of the table, the e-diaeresis of "citroen", is the
\* element "U+00EB".
BrandsOf(cc) ==
    CASE cc = Str("DE") ->
            {Str("audi"), Str("bmw"), Str("mercedes"), Str("mercedes-benz"), Str("porsche"),
             Str("volkswagen"), Str("vw"), Str("opel"), Str("maybach"), Str("smart")}
      [] cc = Str("IT") ->
            {Str("ferrari"), Str("lamborghini"), Str("maserati"), Str("fiat"), Str("alfa romeo"),
             Str("lancia"), Str("pagani")}
      [] cc = Str("FR") ->
            {Str("renault"), Str("peugeot"), (Str("citro") \o <<"U+00EB">> \o Str("n")), Str("citroen"), Str("bugatti")}
      [] cc = Str("GB") ->
            {Str("bentley"), Str("rolls-royce"), Str("aston martin"), Str("jaguar"), Str("land rover"),
             Str("mclaren"), Str("lotus"), Str("mini"), Str("mg")}
      [] cc = Str("US") ->
            {Str("ford"), Str("chevrolet"), Str("tesla"), Str("dodge"), Str("jeep"),
             Str("cadillac"), Str("gmc"), Str("buick"), Str("chrysler")}
      [] cc = Str("JP") ->
            {Str("toyota"), Str("honda"), Str("nissan"), Str("mazda"), Str("subaru"),
             Str("lexus"), Str("infiniti"), Str("acura"), Str("suzuki"), Str("mitsubishi")}
      [] cc = Str("KR") ->
            {Str("hyundai"), Str("kia"), Str("genesis"), Str("ssangyong")}
      [] cc = Str("SE") ->
            {Str("volvo"), Str("koenigsegg"), Str("saab")}
      [] cc = Str("CZ") ->
            {Str("skoda"), Str("tatra")}
      [] cc = Str("RO") ->
            {Str("dacia")}
      [] cc = Str("ES") ->
            {Str("seat"), Str("cupra")}
      [] cc = Str("IN") ->
            {Str("tata"), Str("mahindra")}
      [] OTHER -> {}
BrandCountries == {Str("DE"), Str("IT"), Str("FR"), Str("GB"), Str("US"), Str("JP"), Str("KR"), Str("SE"), Str("CZ"), Str("RO"), Str("ES"), Str("IN")}
BrandKeys == UNION {BrandsOf(cc) : cc \in BrandCountries}
BRAND_COUNTRY == [b \in BrandKeys |-> CHOOSE cc \in BrandCountries : b \in BrandsOf(cc)]

\* the lookup that leaves out strip() and lower()
CountryOfExact(b) ==
    IF b \in BrandKeys THEN BRAND_COUNTRY[b] ELSE None
\* BRAND_COUNTRY.get(brand.strip().lower())
CountryOf(b) ==
    IF Lower(Strip(b)) \in BrandKeys THEN BRAND_COUNTRY[Lower(Strip(b))] ELSE None

\* lines 497, 521-528: the geometry of the spec region
spec_area_top == height - margin - 320
spec_y_start == spec_area_top
col_width == (width - 2 * margin - 100) \div 3
left_col_x == margin + 50
mid_col_x == left_col_x + col_width + 20
right_col_x == mid_col_x + col_width + 20
\* lines 543, 558
mid_val_end == mid_col_x + col_width - 10
r_val_end == right_col_x + col_width - 10

\* The keys generate_poster displays, and the two it strips (line 465): a key
\* starting with "_" is written "_src" here.
DisplayKeys == {"year", "engine", "power", "torque", "weight", "acceleration_0_100", "top_speed"}

\* line 465
DisplaySpecs(d) ==
    [k \in {j \in DOMAIN d : j # "_src" /\ j # "image_url"} |-> d[k]]

\* lines 538 and 553-556: the fixed field lists of the two columns
MidFields == <<[key |-> "engine", label |-> "Engine"], [key |-> "power", label |-> "Power"],
               [key |-> "torque", label |-> "Torque"], [key |-> "weight", label |-> "Weight"]>>
RightFields == <<[key |-> "acceleration_0_100", label |-> "0-100 km/h"],
                 [key |-> "top_speed", label |-> "Top speed"]>>

\* The mutant of C10: an absent field keeps its row, with an empty value.
ColumnItemsWithGaps(fields, ds) ==
    [i \in 1..Len(fields) |->
        [key |-> fields[i].key, label |-> fields[i].label,
         value |-> IF fields[i].key \in DOMAIN ds
                   THEN _sanitize_spec_value(ds[fields[i].key], max_val_len) ELSE <<>>]]

\* lines 537-540 (mid_items) and 552-556 (right_items)
ColumnItems(fields, ds) ==
    LET present == SelectSeq(fields, LAMBDA f : f.key \in DOMAIN ds)
    IN  [i \in 1..Len(present) |->
            [key |-> present[i].key, label |-> present[i].label,
             value |-> _sanitize_spec_value(ds[present[i].key], max_val_len)]]

\* draw.textbbox((0, 0), value, font=value_font): the rendered width of a value
\* depends on the font found; a glyph advances between 0 and the font size, on
\* average q / GlyphSteps of it.
TextWidths(value) ==
    {(Len(value) * ValueFontSize * q) \div GlyphSteps : q \in 0..GlyphSteps}

\* The values of the specification sets given to generate_poster: a short one
\* and one longer than max_val_len.
InitPoster ==
    /\ p_pc = "call"
    /\ brand \in {Str("AUDI"), Str(" Volvo "), Str("Tucker"), Str("Fiat"), Str("Bugatti"),
                  Str("MG"), Str("Ford"), Str("Mazda"), Str("Kia"), Str("Tatra"),
                  Str("Dacia"), Str("Seat"), Str("Tata")}
    /\ p_specs \in {[k \in ks \cup extra |-> v] :
                       ks \in SUBSET DisplayKeys, extra \in {{}, {"image_url", "_src"}},
                       v \in {Str("250 km/h"), Str("Twin-Turbo 2.5L TFSI Coupe")}}
    \* every row set with three brands, one row set with the others
    /\ \/ brand \in {Str("AUDI"), Str(" Volvo "), Str("Tucker")}
       \/ p_specs = [k \in DisplayKeys |-> Str("250 km/h")]
    /\ display_specs = None
    /\ p_i = 0 /\ rows = <<>> /\ last_text = NoText /\ flag_pixels = {} /\ saved = FALSE
    /\ SanIdle /\ FlagIdle /\ ExtractIdle /\ MainIdle /\ ImageIdle /\ SelIdle

\* lines 465-518: display_specs; the canvas, the border lines, the header and the
\* image panel are drawn above the spec region and leave no trace here
PosterBegin ==
    /\ p_pc = "call"
    /\ display_specs' = DisplaySpecs(p_specs)
    /\ p_pc' = "year"
    /\ UNCHANGED <<brand, p_specs, p_i, rows, last_text, flag_pixels, saved>>
    /\ UNCHANGED notPoster

\* lines 530-534: the left column
PosterYear ==
    /\ p_pc = "year"
    /\ IF "year" \in DOMAIN display_specs
       THEN LET val == _sanitize_spec_value(display_specs["year"], max_val_len)
            IN  \E tw \in TextWidths(val) :
                    /\ last_text' = [col |-> "left", x0 |-> left_col_x, x1 |-> left_col_x + tw]
                    /\ rows' = Append(rows, [col |-> "left", key |-> "year", label |-> "YEAR",
                                             y |-> spec_y_start + line_height])
       ELSE UNCHANGED <<last_text, rows>>
    /\ p_pc' = "mid"
    /\ p_i' = 0
    /\ UNCHANGED <<brand, p_specs, display_specs, flag_pixels, saved>>
    /\ UNCHANGED notPoster

\* lines 544-549: one row of the middle column
PosterMidRow ==
    /\ p_pc = "mid"
    /\ LET mid_items == ColumnItems(MidFields, display_specs)
       IN  IF p_i < Len(mid_items)
           THEN LET item == mid_items[p_i + 1]
                    y == spec_y_start + p_i * line_height
                IN  /\ \E tw \in TextWidths(item.value) :
                           LET val_w == Min(tw, mid_val_end - (mid_col_x + mid_label_w + 12))
                           IN  last_text' = [col |-> "mid", x0 |-> mid_val_end - val_w,
                                             x1 |-> mid_val_end - val_w + tw]
                    /\ rows' = Append(rows, [col |-> "mid", key |-> item.key,
                                             label |-> item.label, y |-> y])
                    /\ p_i' = p_i + 1
                    /\ p_pc' = "mid"
           ELSE /\ p_pc' = "right"
                /\ p_i' = 0
                /\ UNCHANGED <<rows, last_text>>
    /\ UNCHANGED <<brand, p_specs, display_specs, flag_pixels, saved>>
    /\ UNCHANGED notPoster

\* lines 559-564: one row of the right column
PosterRightRow ==
    /\ p_pc = "right"
    /\ LET right_items == ColumnItems(RightFields, display_specs)
       IN  IF p_i < Len(right_items)
           THEN LET item == right_items[p_i + 1]
                    y == spec_y_start + p_i * line_height
                IN  /\ \E tw \in TextWidths(item.value) :
                           LET val_w == Min(tw, col_width - r_label_w - 15)
                           IN  last_text' = [col |-> "right", x0 |-> r_val_end - val_w,
                                             x1 |-> r_val_end - val_w + tw]
                    /\ rows' = Append(rows, [col |-> "right", key |-> item.key,
                                             label |-> item.label, y |-> y])
                    /\ p_i' = p_i + 1
                    /\ p_pc' = "right"
           ELSE /\ p_pc' = "flag"
                /\ p_i' = 0
                /\ UNCHANGED <<rows, last_text>>
    /\ UNCHANGED <<brand, p_specs, display_specs, flag_pixels, saved>>
    /\ UNCHANGED notPoster

\* lines 566-572: the flag, under the last right row
PosterFlag ==
    /\ p_pc = "flag"
    /\ LET code == CountryOf(brand)
           flag_y == spec_y_start + Len(ColumnItems(RightFields, display_specs)) * line_height + 12
           flag_x == r_val_end - flag_w
       IN  IF code # None
           THEN flag_pixels' \in _draw_country_flag(code,
                    [x |-> flag_x, y |-> flag_y, w |-> flag_w, h |-> flag_h])
           ELSE flag_pixels' = flag_pixels
    /\ p_pc' = "save"
    /\ UNCHANGED <<brand, p_specs, display_specs, p_i, rows, last_text, saved>>
    /\ UNCHANGED notPoster

\* lines 574-583: img.save
PosterSave ==
    /\ p_pc = "save"
    /\ saved' = TRUE
    /\ p_pc' = "done"
    /\ UNCHANGED <<brand, p_specs, display_specs, p_i, rows, last_text, flag_pixels>>
    /\ UNCHANGED notPoster

NextPoster ==
    PosterBegin \/ PosterYear \/ PosterMidRow \/ PosterRightRow \/ PosterFlag \/ PosterSave
SpecPoster == InitPoster /\ [][NextPoster]_vars

\* C9 (as stated): whatever the rendered widths, a middle or right value is drawn
\* inside its column's value sub-area (from the end of the label sub-area to the
\* column's value end), and what a column draws ends before the next column starts.
C9_ColumnsNeverOverlap ==
    /\ last_text.col = "left" => last_text.x1 < mid_col_x
    /\ last_text.col = "mid" =>
          /\ last_text.x0 >= mid_col_x + mid_label_w
          /\ last_text.x1 <= mid_val_end
          /\ last_text.x1 < right_col_x
    /\ last_text.col = "right" =>
          /\ last_text.x0 >= right_col_x + r_label_w
          /\ last_text.x1 <= r_val_end

\* C10: the finished poster has, in the middle and in the right column, one row
\* per present field of the column's list, in the list's order, the i-th row
\* (from 0) at y = spec_y_start + i * 42.
C10_RowsOf(col) == SelectSeq(rows, LAMBDA r : r.col = col)
C10_PresentOf(fields) == SelectSeq(fields, LAMBDA f : f.key \in DOMAIN p_specs)
C10_ColumnCompact(col, fields) ==
    /\ Len(C10_RowsOf(col)) = Len(C10_PresentOf(fields))
    /\ \A i \in 1..Len(C10_RowsOf(col)) :
          /\ C10_RowsOf(col)[i].key = C10_PresentOf(fields)[i].key
          /\ C10_RowsOf(col)[i].y = spec_y_start + (i - 1) * 42
C10_RowsCompact ==
    p_pc = "done" =>
        /\ C10_ColumnCompact("mid", MidFields)
        /\ C10_ColumnCompact("right", RightFields)

\* A poster with gaps in both lists: power and weight without engine and torque,
\* top speed without acceleration.
C10_Witness ==
    /\ p_pc = "done"
    /\ DOMAIN display_specs = {"power", "weight", "top_speed"}
    /\ Len(C10_RowsOf("mid")) = 2
    /\ C10_RowsOf("mid")[2].key = "weight"
    /\ C10_RowsOf("mid")[2].y = spec_y_start + 42
    /\ C10_RowsOf("right")[1].y = spec_y_start

\* ------------------------------------------------------- get_model_specs
\* A page is the document BeautifulSoup parses from the HTML text:
\*   rows  the <tr> elements of its tables in document order, each the sequence
\*         of its cells' get_text(strip=True);
\*   text  the text nodes after the tables (stripped, joined by one space);
\*   imgs  the src attributes of its <img src=...> elements in document order.
\* The empty HTML text "" is EmptyHtml.
EmptyHtml == [type |-> "str", rows |-> <<>>, text |-> <<>>, imgs |-> <<>>, empty |-> TRUE]
Page(rows_, text_, imgs_) ==
    [type |-> "str", rows |-> rows_, text |-> text_, imgs |-> imgs_, empty |-> FALSE]

\* sub in s, at position p / anywhere
StartsAt(s, sub, p) ==
    /\ p >= 1
    /\ p + Len(sub) - 1 <= Len(s)
    /\ \A j \in 1..Len(sub) : s[p + j - 1] = sub[j]
Contains(s, sub) == \E p \in 1..(Len(s) - Len(sub) + 1) : StartsAt(s, sub, p)

RECURSIVE JoinWith(_, _)
\* sep.join(parts)
JoinWith(parts, sep) ==
    IF parts = <<>> THEN <<>>
    ELSE IF Len(parts) = 1 THEN parts[1]
    ELSE parts[1] \o sep \o JoinWith(Tail(parts), sep)

RECURSIVE Flatten(_)
Flatten(seqs) == IF seqs = <<>> THEN <<>> ELSE Head(seqs) \o Flatten(Tail(seqs))

\* soup.get_text(separator=' ', strip=True): the non-empty stripped text nodes,
\* joined by one space (line 264)
TextContent(page) ==
    JoinWith(SelectSeq(Flatten(page.rows) \o <<page.text>>, LAMBDA t : t # <<>>), Str(" "))

\* ---- regular expressions (re.search: the leftmost match, alternatives in order)
IsDigit(c) == c \in {"0", "1", "2", "3", "4", "5", "6", "7", "8", "9"}
\* \s
ReSpaces == {" ", "\t", "\n", "\r", "\f"}

RECURSIVE DigitRun(_, _)
\* the number of digits of s from position p on
DigitRun(s, p) == IF p <= Len(s) /\ IsDigit(s[p]) THEN 1 + DigitRun(s, p + 1) ELSE 0

RECURSIVE SpaceRun(_, _)
DigitsAt(s, p) == SubSeq(s, p, p + DigitRun(s, p) - 1)
SpaceRun(s, p) == IF p <= Len(s) /\ s[p] \in ReSpaces THEN 1 + SpaceRun(s, p + 1) ELSE 0

RECURSIVE NonDigitRun(_, _)
\* [^\d]*
NonDigitRun(s, p) == IF p <= Len(s) /\ ~IsDigit(s[p]) THEN 1 + NonDigitRun(s, p + 1) ELSE 0

\* a literal at p, ignoring case (re.I); lit is lower case
StartsAtCI(s, lit, p) ==
    /\ p >= 1
    /\ p + Len(lit) - 1 <= Len(s)
    /\ \A j \in 1..Len(lit) : LowerChar(s[p + j - 1]) = lit[j]

\* \s*lit at p: the position after the literal, or 0
AfterSpacesLit(s, p, lit) ==
    IF StartsAtCI(s, lit, p + SpaceRun(s, p)) THEN p + SpaceRun(s, p) + Len(lit) ELSE 0

\* \d+\.?\d* at p, followed by something that is neither a digit nor a point it
\* could take: the position after it, or 0 when no digit is at p
NumberEnd(s, p) ==
    IF DigitRun(s, p) = 0 THEN 0
    ELSE LET q == p + DigitRun(s, p)
         IN  IF q <= Len(s) /\ s[q] = "." THEN q + 1 + DigitRun(s, q + 1) ELSE q

\* the smallest member of a set of positions, or 0
FirstOf(ps) == IF ps = {} THEN 0 ELSE CHOOSE p \in ps : \A q \in ps : p <= q

NoMatch == [found |-> FALSE, value |-> <<>>]
Found(v) == [found |-> TRUE, value |-> v]

\* (\d+\.?\d*)\s*L(?:\s*TFSI|\s*TDI|\s*V6|\s*V8|\s*I4)?   (line 308); group(0).strip()
\* the position after the match that starts at p, or 0
EngineEndAt(s, p) ==
    IF NumberEnd(s, p) = 0 THEN 0
    ELSE LET suffixes == <<Str("tfsi"), Str("tdi"), Str("v6"), Str("v8"), Str("i4")>>
             l == AfterSpacesLit(s, NumberEnd(s, p), Str("l"))
             sfx == {i \in 1..Len(suffixes) : AfterSpacesLit(s, l, suffixes[i]) # 0}
         IN  IF l = 0 THEN 0
             ELSE IF sfx = {} THEN l
             ELSE AfterSpacesLit(s, l, suffixes[FirstOf(sfx)])
EngineSearch(s) ==
    LET p == FirstOf({q \in 1..Len(s) : EngineEndAt(s, q) # 0})
    IN  IF p = 0 THEN NoMatch ELSE Found(Strip(SubSeq(s, p, EngineEndAt(s, p) - 1)))

\* (\d+)\s*(?:HP|hp|PS|ps|kW|kw)   (line 314); "<group 1> HP"
PowerSearch(s) ==
    LET p == FirstOf({q \in 1..Len(s) :
                 /\ DigitRun(s, q) > 0
                 /\ \E u \in {Str("hp"), Str("ps"), Str("kw")} :
                       AfterSpacesLit(s, q + DigitRun(s, q), u) # 0})
    IN  IF p = 0 THEN NoMatch ELSE Found(DigitsAt(s, p) \o Str(" HP"))

\* (\d+)\s*Nm|(\d+)\s*lb-ft|(\d+)\s*lb\.ft   (line 319)
TorqueUnitAt(s, p, u) == DigitRun(s, p) > 0 /\ AfterSpacesLit(s, p + DigitRun(s, p), u) # 0
\* the search that takes the first Nm figure wherever it stands, and an lb-ft
\* figure only when there is no Nm figure
TorqueSearchNmFirst(s) ==
    LET pn == FirstOf({q \in 1..Len(s) : TorqueUnitAt(s, q, Str("nm"))})
        pl == FirstOf({q \in 1..Len(s) :
                 \E u \in {Str("lb-ft"), Str("lb.ft")} : TorqueUnitAt(s, q, u)})
    IN  IF pn # 0 THEN Found(DigitsAt(s, pn) \o Str(" Nm"))
        ELSE IF pl # 0 THEN Found(DigitsAt(s, pl) \o Str(" lb-ft"))
        ELSE NoMatch
TorqueSearch(s) ==
    LET p == FirstOf({q \in 1..Len(s) :
                 \E u \in {Str("nm"), Str("lb-ft"), Str("lb.ft")} : TorqueUnitAt(s, q, u)})
    IN  IF p = 0 THEN NoMatch
        ELSE IF TorqueUnitAt(s, p, Str("nm")) THEN Found(DigitsAt(s, p) \o Str(" Nm"))
        ELSE Found(DigitsAt(s, p) \o Str(" lb-ft"))

\* (\d{3,5})\s*kg|(\d{3,5})\s*lbs?   (line 327)
WeightUnitAt(s, p, u) ==
    /\ DigitRun(s, p) \in 3..5
    /\ AfterSpacesLit(s, p + DigitRun(s, p), u) # 0
WeightSearch(s) ==
    LET p == FirstOf({q \in 1..Len(s) : WeightUnitAt(s, q, Str("kg")) \/ WeightUnitAt(s, q, Str("lb"))})
    IN  IF p = 0 THEN NoMatch
        ELSE IF WeightUnitAt(s, p, Str("kg")) THEN Found(DigitsAt(s, p) \o Str(" kg"))
        ELSE Found(DigitsAt(s, p) \o Str(" lbs"))

\* 0-100[^\d]*(\d+\.?\d*)\s*s(?:ec)?|0-60[^\d]*(\d+\.?\d*)\s*s(?:ec)?   (line 335)
\* the start of the number when lit, a run of non-digits, a number and \s*s
\* match at p; 0 otherwise
AccelNumberAt(s, p, lit) ==
    IF ~StartsAtCI(s, lit, p) THEN 0
    ELSE LET n == p + Len(lit) + NonDigitRun(s, p + Len(lit))
         IN  IF NumberEnd(s, n) # 0 /\ AfterSpacesLit(s, NumberEnd(s, n), Str("s")) # 0
             THEN n ELSE 0
AccelStartAt(s, p) ==
    IF AccelNumberAt(s, p, Str("0-100")) # 0 THEN AccelNumberAt(s, p, Str("0-100"))
    ELSE AccelNumberAt(s, p, Str("0-60"))
AccelSearch(s) ==
    LET p == FirstOf({q \in 1..Len(s) : AccelStartAt(s, q) # 0})
        n == AccelStartAt(s, p)
    IN  IF p = 0 THEN NoMatch ELSE Found(SubSeq(s, n, NumberEnd(s, n) - 1) \o Str(" s"))

\* (?:top|max(?:imum)?)\s*speed[^\d]*(\d+)\s*km/h|(\d+)\s*km/h.*top   (line 340)
\* first alternative: the start of the number, or 0
SpeedWordEnd(s, p) ==
    IF StartsAtCI(s, Str("top"), p) THEN p + 3
    ELSE IF StartsAtCI(s, Str("maximum"), p) THEN p + 7
    ELSE IF StartsAtCI(s, Str("max"), p) THEN p + 3
    ELSE 0
SpeedNumberAt(s, p) ==
    IF SpeedWordEnd(s, p) = 0 \/ AfterSpacesLit(s, SpeedWordEnd(s, p), Str("speed")) = 0 THEN 0
    ELSE LET a == AfterSpacesLit(s, SpeedWordEnd(s, p), Str("speed"))
             n == a + NonDigitRun(s, a)
         IN  IF DigitRun(s, n) > 0 /\ AfterSpacesLit(s, n + DigitRun(s, n), Str("km/h")) # 0
             THEN n ELSE 0
\* second alternative: digits and km/h at p, then "top" later on the same line
SpeedBeforeTopAt(s, p) ==
    /\ DigitRun(s, p) > 0
    /\ LET a == AfterSpacesLit(s, p + DigitRun(s, p), Str("km/h"))
       IN  /\ a # 0
           /\ \E t \in a..Len(s) :
                 /\ StartsAtCI(s, Str("top"), t)
                 /\ \A j \in a..(t - 1) : s[j] # "\n"
SpeedSearch(s) ==
    LET p == FirstOf({q \in 1..Len(s) : SpeedNumberAt(s, q) # 0 \/ SpeedBeforeTopAt(s, q)})
    IN  IF p = 0 THEN NoMatch
        ELSE IF SpeedNumberAt(s, p) # 0
             THEN Found(DigitsAt(s, SpeedNumberAt(s, p)) \o Str(" km/h"))
        ELSE Found(DigitsAt(s, p) \o Str(" km/h"))

\* (\d{4})\s*-\s*(\d{4})|(\d{4})   (line 346)
\* the start of the second year when a range matches at p; 0 otherwise
YearRangeAt(s, p) ==
    IF DigitRun(s, p) < 4 THEN 0
    ELSE LET d == p + 4 + SpaceRun(s, p + 4)
         IN  IF d <= Len(s) /\ s[d] = "-" /\ DigitRun(s, d + 1 + SpaceRun(s, d + 1)) >= 4
             THEN d + 1 + SpaceRun(s, d + 1) ELSE 0
YearSearch(s) ==
    LET p == FirstOf({q \in 1..Len(s) : DigitRun(s, q) >= 4})
    IN  IF p = 0 THEN NoMatch
        ELSE IF YearRangeAt(s, p) # 0
             THEN Found(SubSeq(s, p, p + 3) \o Str("-")
                        \o SubSeq(s, YearRangeAt(s, p), YearRangeAt(s, p) + 3))
        ELSE Found(SubSeq(s, p, p + 3))

\* ---- dicts: functions from keys to values
EmptyDict == [k \in {} |-> <<>>]
SetKey(d, key, v) == [k \in DOMAIN d \cup {key} |-> IF k = key THEN v ELSE d[k]]

\* ---- Tier 1 (lines 266-304)
RejectWords ==
    {Str("coupe"), Str("roadster"), Str("submodel"), Str("belonging"), Str("vers"), Str("gen.")}
\* the mutant of _ok_spec_val without the reject list
OkSpecValNoRejectList(v, max_len) ==
    LET t == Take(Replace(Strip(v), "\n", " "), max_len)
    IN  IF t = <<>> THEN None ELSE t
_ok_spec_val(v, max_len) ==
    LET t == Take(Replace(Strip(v), "\n", " "), max_len)
    IN  IF t = <<>> \/ Len(t) > max_len THEN None
        ELSE IF \E x \in RejectWords : Contains(Lower(t), x) THEN None
        ELSE t

\* the field a label maps to, by the if/elif chain of lines 284-302; "" for none
FieldOf(label) ==
    IF Contains(label, Str("engine")) \/ Contains(label, Str("displacement")) THEN "engine"
    ELSE IF Contains(label, Str("power")) \/ Contains(label, Str("horsepower"))
            \/ Contains(label, Str("hp")) THEN "power"
    ELSE IF Contains(label, Str("torque")) THEN "torque"
    ELSE IF Contains(label, Str("weight")) \/ Contains(label, Str("mass")) THEN "weight"
    ELSE IF Contains(label, Str("acceleration")) \/ Contains(label, Str("0-100"))
            \/ Contains(label, Str("0-60")) THEN "acceleration_0_100"
    ELSE IF Contains(label, Str("top speed")) \/ Contains(label, Str("maximum speed"))
         THEN "top_speed"
    ELSE IF Contains(label, Str("year")) \/ Contains(label, Str("production")) THEN "year"
    ELSE ""

\* one <tr> (the body of the loop, lines 271-304); year is value.strip()[:20],
\* which ^[\d\s\-]+$ must match (line 303)
ScanRow(d, cells) ==
    IF Len(cells) < 2 THEN d
    ELSE LET field == FieldOf(Lower(cells[1]))
             value == cells[2]
             year == Take(Strip(value), 20)
         IN  IF field = "" THEN d
             ELSE IF field = "year"
                  THEN IF /\ _ok_spec_val(value, 20) # None
                          /\ year # <<>>
                          /\ \A i \in 1..Len(year) :
                                IsDigit(year[i]) \/ year[i] \in ReSpaces \/ year[i] = "-"
                       THEN SetKey(d, "year", year) ELSE d
             ELSE IF _ok_spec_val(value, 35) # None
                  THEN SetKey(d, field, _ok_spec_val(value, 35)) ELSE d

RECURSIVE ScanRows(_, _)
\* the loop over the rows, in document order
ScanRows(d, trs) == IF trs = <<>> THEN d ELSE ScanRows(ScanRow(d, Head(trs)), Tail(trs))

\* ---- Tier 2 (lines 306-351)
Tier2Fields == {"engine", "power", "torque", "weight", "acceleration_0_100", "top_speed", "year"}
SearchFor(field, url, text) ==
    CASE field = "engine" -> EngineSearch(text)
      [] field = "power" -> PowerSearch(text)
      [] field = "torque" -> TorqueSearch(text)
      [] field = "weight" -> WeightSearch(text)
      [] field = "acceleration_0_100" -> AccelSearch(text)
      [] field = "top_speed" -> SpeedSearch(text)
      [] field = "year" -> YearSearch(url \o Str(" ") \o text)
\* the mutant of Fallback that searches whether or not the field is set
FallbackOverwrites(d, field, url, text) == SearchFor(field, url, text)
\* what one "if not specs.get(field): ..." block writes to the field
Fallback(d, field, url, text) ==
    IF field \notin DOMAIN d \/ d[field] = <<>> THEN SearchFor(field, url, text) ELSE NoMatch
\* the seven blocks: each reads and writes its own field only
Tier2(d, url, text) ==
    [k \in DOMAIN d \cup {f \in Tier2Fields : Fallback(d, f, url, text).found} |->
        IF k \in Tier2Fields /\ Fallback(d, k, url, text).found
        THEN Fallback(d, k, url, text).value ELSE d[k]]

\* ---- urllib.parse.urljoin, for sources without query, fragment or dot segments
IsLetter(c) == \E i \in 1..Len(LowerLetters) : LowerLetters[i] = LowerChar(c)
\* the position of the colon that ends the scheme of u, or 0
SchemeEnd(u) ==
    LET c == FirstOf({i \in 1..Len(u) : u[i] = ":"})
    IN  IF c > 1 /\ IsLetter(u[1]) /\ (\A i \in 1..(c - 1) : IsLetter(u[i]) \/ IsDigit(u[i]) \/ u[i] \in {"+", "-", "."})
        THEN c ELSE 0
SchemeOf(u) == Lower(SubSeq(u, 1, SchemeEnd(u) - 1))
\* the netloc of u ("" when u has none): what follows "//" up to the next "/"
NetlocOf(u) ==
    LET r == SubSeq(u, SchemeEnd(u) + 1, Len(u))
        e == FirstOf({i \in 3..Len(r) : r[i] = "/"})
    IN  IF ~StartsAt(r, Str("//"), 1) THEN <<>>
        ELSE IF e = 0 THEN SubSeq(r, 3, Len(r)) ELSE SubSeq(r, 3, e - 1)
\* urlsplit raises ValueError("Invalid IPv6 URL")
UrlJoinRaises(src) ==
    LET n == NetlocOf(src)
    IN  (\E i \in 1..Len(n) : n[i] = "[") # (\E i \in 1..Len(n) : n[i] = "]")
uses_relative ==
    {Str("ftp"), Str("http"), Str("gopher"), Str("nntp"), Str("imap"), Str("wais"),
     Str("file"), Str("https"), Str("shttp"), Str("mms"), Str("prospero"), Str("rtsp"),
     Str("rtspu"), Str("sftp"), Str("svn"), Str("svn+ssh"), Str("ws"), Str("wss")}
\* scheme://netloc of base
OriginOf(base) == SubSeq(base, 1, SchemeEnd(base) + 2 + Len(NetlocOf(base)))
urljoin(base, src) ==
    IF SchemeEnd(src) # 0 /\ (SchemeOf(src) # SchemeOf(base) \/ SchemeOf(src) \notin uses_relative)
    THEN src
    ELSE LET r == SubSeq(src, SchemeEnd(src) + 1, Len(src))
             \* base up to and including the last "/" of its path
             ps == {i \in (Len(OriginOf(base)) + 1)..Len(base) : base[i] = "/"}
             dir == IF ps = {} THEN OriginOf(base) \o Str("/")
                    ELSE SubSeq(base, 1, CHOOSE p \in ps : \A q \in ps : q <= p)
         IN  IF NetlocOf(src) # <<>> THEN SchemeOf(base) \o Str(":") \o r
             ELSE IF StartsAt(r, Str("/"), 1) THEN OriginOf(base) \o r
             ELSE dir \o r

\* ---- Tier 3 (lines 353-367)
\* what a loop over the images comes to: kind is "found", "none" or "raise"
Image(kind, u) == [kind |-> kind, url |-> u]

RECURSIVE FirstImage(_, _)
\* the first loop (lines 354-361)
FirstImage(url, imgs) ==
    IF imgs = <<>> THEN Image("none", <<>>)
    ELSE LET src == Strip(Head(imgs))
         IN  IF \/ src = <<>>
                \/ \E w \in {Str("logo"), Str("icon"), Str("pixel")} : Contains(Lower(src), w)
             THEN FirstImage(url, Tail(imgs))
             ELSE IF UrlJoinRaises(src) THEN Image("raise", <<>>)
             ELSE IF Contains(urljoin(url, src), Str("automobile-catalog.com"))
                     \/ StartsAt(urljoin(url, src), Str("http"), 1)
                  THEN Image("found", urljoin(url, src))
             ELSE FirstImage(url, Tail(imgs))

RECURSIVE FallbackImage(_, _)
\* the second loop (lines 363-367)
FallbackImage(url, imgs) ==
    IF imgs = <<>> THEN Image("none", <<>>)
    ELSE LET src == Strip(Head(imgs))
         IN  IF Len(src) > 10
             THEN IF UrlJoinRaises(src) THEN Image("raise", <<>>)
                  ELSE Image("found", urljoin(url, src))
             ELSE FallbackImage(url, Tail(imgs))
\* Tier 3 without its second loop
Tier3FirstLoopOnly(url, imgs) == FirstImage(url, imgs)
Tier3(url, imgs) ==
    IF FirstImage(url, imgs).kind # "none" THEN FirstImage(url, imgs)
    ELSE FallbackImage(url, imgs)

\* ---- the fetch (lines 250-260)
\* text is response.text[:2000], markup left out
_is_blocked(resp) ==
    LET text == Take(TextContent(resp.text), 2000)
    IN  \/ resp.status_code = 403
        \/ Contains(text, Str("Just a moment"))
        \/ Contains(text, Str("cf_chl"))
        \/ Contains(Lower(text), Str("challenge"))
\* bool(html)
IsHtml(h) == h # NoneR /\ ~h.empty
\* html after lines 253-258, browser being what _fetch_with_selenium returns
HtmlOf(resp, browser) ==
    LET h == IF _is_blocked(resp) THEN browser ELSE NoneR
    IN  IF h = NoneR /\ resp.status_code < 400 THEN resp.text ELSE h

\* ---- the inputs: table rows, page texts, image sources, responses
RowPool ==
    <<  <<Str("Engine"), Str("2.5L TFSI")>>,
        <<Str("Displacement"), Str("2480 cm3")>>,
        <<Str("Engine type"), Str("Twin-Turbo Coupe Variant")>>,
        <<Str("Engine"), Str("Turbocharged inline five petrol, TT coupe")>>,
        <<Str("Max power"), Str("394 PS")>>,
        <<Str("Production years"), Str("2016 - 2023")>>,
        <<Str("Top speed"), Str("250 km/h")>>,
        <<Str("Specifications")>>  >>

RECURSIVE SeqsUpTo(_, _)
\* the sequences over a set, of length at most n
SeqsUpTo(S, n) ==
    IF n = 0 THEN {<<>>}
    ELSE SeqsUpTo(S, n - 1) \cup {Append(q, x) : q \in SeqsUpTo(S, n - 1), x \in S}
\* the pages: rows of RowPool, a text, image sources
Pages ==
    LET TextPool ==
            {<<>>,
             Str("The 2.5 L TFSI makes 400 hp and 480 Nm, 1450 kg, 0-100 km/h in 3.7 s, top speed 250 km/h (2016-2023)"),
             Str("Just a moment... 2024"),
             Str("350 lb-ft or 475 Nm"),
             Str("475 Nm (350 lb.ft)")}
        SrcPool == {Str("/img/logo.png"), Str("img/tt_rs.jpg"), Str("http://[bad"),
                    Str("data:image/gif;base64,R0")}
        RowSeqs == {[i \in 1..Len(q) |-> RowPool[q[i]]] :
                        q \in SeqsUpTo(1..Len(RowPool), MaxElements)}
        Parts == {x \in RowSeqs \X TextPool \X SeqsUpTo(SrcPool, MaxElements) :
                        Len(x[1]) + Len(x[3]) <= MaxElements}
    IN  {Page(x[1], x[2], x[3]) : x \in Parts}
\* the responses: any page with status 200, three bodies with an error status
Responses ==
    {[status_code |-> 200, text |-> p] : p \in Pages \cup {EmptyHtml}}
    \cup {[status_code |-> c, text |-> p] :
            c \in {403, 404},
            p \in {EmptyHtml, Page(<<>>, Str("Just a moment... 2024"), <<>>),
                   Page(<<RowPool[1]>>, <<>>, <<>>)}}
\* the page the browser shows: _fetch_with_selenium returns it, "" or None
BrowserPage == Page(<<RowPool[1], RowPool[5]>>, <<>>, <<Str("img/tt_rs.jpg")>>)

InitExtract ==
    /\ g_pc = "call"
    /\ model_url = Str("https://www.automobile-catalog.com/model/audi/tt_rs.html")
    /\ response = NoneR /\ browser_html = NoneR /\ html = NoneR
    /\ specs = EmptyDict /\ g_exc = "none" /\ g_ret = NoneR
    /\ SanIdle /\ FlagIdle /\ PosterIdle /\ MainIdle /\ ImageIdle /\ SelIdle

\* line 252: session.get raises (timeout, connection error); line 371 catches it
FetchRaises ==
    /\ g_pc = "call"
    /\ g_exc' = "fetch" /\ g_ret' = NoneR /\ g_pc' = "done"
    /\ UNCHANGED <<model_url, response, browser_html, html, specs>>
    /\ UNCHANGED notExtract

\* lines 252-261
Fetch ==
    /\ g_pc = "call"
    /\ \E resp \in Responses :
       \E browser \in IF _is_blocked(resp) THEN {NoneR, EmptyHtml, BrowserPage} ELSE {NoneR} :
          /\ response' = resp
          /\ browser_html' = browser
          /\ html' = HtmlOf(resp, browser)
    /\ IF IsHtml(html')
       THEN g_pc' = "tier1" /\ g_ret' = g_ret
       ELSE g_pc' = "done" /\ g_ret' = NoneR
    /\ UNCHANGED <<model_url, specs, g_exc>>
    /\ UNCHANGED notExtract

\* lines 263-304
TableScan ==
    /\ g_pc = "tier1"
    /\ specs' = ScanRows(EmptyDict, html.rows)
    /\ g_pc' = "tier2"
    /\ UNCHANGED <<model_url, response, browser_html, html, g_exc, g_ret>>
    /\ UNCHANGED notExtract

\* lines 306-351
RegexFallback ==
    /\ g_pc = "tier2"
    /\ specs' = Tier2(specs, model_url, TextContent(html))
    /\ g_pc' = "tier3"
    /\ UNCHANGED <<model_url, response, browser_html, html, g_exc, g_ret>>
    /\ UNCHANGED notExtract

\* lines 353-367; what urljoin raises is caught at line 371
ImageScan ==
    /\ g_pc = "tier3"
    /\ LET img == Tier3(model_url, html.imgs)
       IN  IF img.kind = "raise"
           THEN g_exc' = "image" /\ g_ret' = NoneR /\ g_pc' = "done" /\ specs' = specs
           ELSE /\ specs' = IF img.kind = "found" THEN SetKey(specs, "image_url", img.url)
                            ELSE specs
                /\ g_pc' = "return" /\ g_exc' = g_exc /\ g_ret' = g_ret
    /\ UNCHANGED <<model_url, response, browser_html, html>>
    /\ UNCHANGED notExtract

\* line 369
ReturnSpecs ==
    /\ g_pc = "return"
    /\ g_ret' = IF specs # EmptyDict THEN specs ELSE NoneR
    /\ g_pc' = "done"
    /\ UNCHANGED <<model_url, response, browser_html, html, specs, g_exc>>
    /\ UNCHANGED notExtract

NextExtract == FetchRaises \/ Fetch \/ TableScan \/ RegexFallback \/ ImageScan \/ ReturnSpecs
SpecExtract == InitExtract /\ [][NextExtract]_vars

\* get_model_specs as one call: what it returns for a fetch outcome
\* (resp = NoneR when session.get raises)
get_model_specs(url, resp, browser) ==
    IF resp = NoneR \/ ~IsHtml(HtmlOf(resp, browser)) THEN NoneR
    ELSE LET page == HtmlOf(resp, browser)
             d == Tier2(ScanRows(EmptyDict, page.rows), url, TextContent(page))
             img == Tier3(url, page.imgs)
             out == IF img.kind = "found" THEN SetKey(d, "image_url", img.url) ELSE d
         IN  IF img.kind = "raise" \/ out = EmptyDict THEN NoneR ELSE out


\* ---- the claims about get_model_specs
\* the field and value one row on its own would store
C1_StoredBy(cells) == ScanRow(EmptyDict, cells)

\* C1: after the Tier 1 table scan, a field for which several rows carry an
\* accepted value holds the value of the first such row in document order.
C1_FirstAcceptedRowWins ==
    g_pc = "tier2" =>
        \A f \in Tier2Fields : \A i \in 1..Len(html.rows) :
            (/\ f \in DOMAIN C1_StoredBy(html.rows[i])
             /\ \A j \in 1..(i - 1) : f \notin DOMAIN C1_StoredBy(html.rows[j]))
            => specs[f] = C1_StoredBy(html.rows[i])[f]

\* C2: when an image element raises, only that element is skipped: the call
\* still returns the fields extracted from the rows and patterns.
C2_OnlyFailingItemSkipped ==
    (g_pc = "done" /\ g_exc = "image" /\ specs # EmptyDict) =>
        /\ g_ret # NoneR
        /\ \A k \in DOMAIN specs : k \in DOMAIN g_ret /\ g_ret[k] = specs[k]

\* C4: a blocked response (403, or a challenge marker in the body) for which the
\* browser fallback gives no HTML is never parsed, and the call returns None,
\* whatever the status of the response.
C4_BlockedGivesNone ==
    (response # NoneR /\ _is_blocked(response) /\ ~IsHtml(browser_html)) =>
        g_pc = "done" /\ g_ret = NoneR

\* C5: the Tier 2 step leaves every field Tier 1 set as it is, and adds only
\* fields of its seven that Tier 1 left absent.
C5_Tier2KeepsTier1 ==
    [][g_pc = "tier2" =>
         /\ \A k \in DOMAIN specs : k \in DOMAIN specs' /\ specs'[k] = specs[k]
         /\ (DOMAIN specs') \ (DOMAIN specs) \subseteq Tier2Fields]_vars
\* Tier 1 stored the power "394 PS" and the power pattern finds "394 HP" in the text
C5_Witness ==
    /\ g_pc = "tier3"
    /\ "power" \in DOMAIN specs /\ specs["power"] = Str("394 PS")
    /\ PowerSearch(TextContent(html)) = Found(Str("394 HP"))

\* C7
C7_Fields == {"engine", "power", "torque", "weight", "acceleration_0_100", "top_speed"}
C7_HasRejectWord(t) == \E x \in RejectWords : Contains(Lower(t), x)
C7_Cut(v) == Take(Replace(Strip(v), "\n", " "), 35)
C7_ValuesClean ==
    \A k \in C7_Fields \cap DOMAIN specs :
        specs[k] # <<>> /\ Len(specs[k]) <= 35 /\ ~C7_HasRejectWord(specs[k])
C7_RowOf(i, k) == Len(html.rows[i]) >= 2 /\ FieldOf(Lower(html.rows[i][1])) = k
\* C7 as stated: the values Tier 1 stored are non-empty, at most 35 characters
\* and free of reject words, and a field with a row whose value contains a
\* reject word is absent after Tier 1.
C7_Original ==
    g_pc = "tier2" =>
        /\ C7_ValuesClean
        /\ \A k \in C7_Fields : \A i \in 1..Len(html.rows) :
              (C7_RowOf(i, k) /\ C7_HasRejectWord(html.rows[i][2])) => k \notin DOMAIN specs
\* C7 as amended: the values Tier 1 stored are non-empty, at most 35 characters
\* and free of reject words, and each was stored by a row of its field whose
\* value, stripped and cut to 35 characters, contains no reject word: a row
\* whose cut value contains one never sets the field.
C7_StoredValuesClean ==
    g_pc = "tier2" =>
        /\ C7_ValuesClean
        /\ \A k \in C7_Fields \cap DOMAIN specs : \E i \in 1..Len(html.rows) :
              /\ C7_RowOf(i, k)
              /\ ~C7_HasRejectWord(C7_Cut(html.rows[i][2]))
              /\ specs[k] = C7_Cut(html.rows[i][2])
\* the engine row "Twin-Turbo Coupe Variant" was scanned and engine is absent
C7_Witness ==
    /\ g_pc = "tier2"
    /\ \E i \in 1..Len(html.rows) :
          C7_RowOf(i, "engine") /\ html.rows[i][2] = Str("Twin-Turbo Coupe Variant")
    /\ "engine" \notin DOMAIN specs

\* ------------------------------------------------------------------ main
BASE_URL == Str("https://www.automobile-catalog.com")
\* lines 184-189: its one key (b, m) and the entries under it
KNOWN_MODEL_URLS ==
    [b |-> Str("audi"), m |-> Str("tt rs"),
     entries |->
        <<[name |-> Str("Audi TT RS"), url |-> BASE_URL \o Str("/model/audi/tt_gen_2.html")],
          [name |-> Str("Audi TT RS"), url |-> BASE_URL \o Str("/model/audi/tt_rs.html")]>>]
\* search_brand (lines 239-246)
search_brand(b, model_slug) ==
    IF model_slug = None \/ model_slug = <<>> THEN <<>>
    ELSE LET brand_slug == Replace(Strip(Lower(b)), " ", "_")
             slug == Replace(Replace(Strip(Lower(model_slug)), " ", "_"), "-", "_")
             t == Replace(model_slug, "_", " ")
             \* str.title()
             title == [i \in 1..Len(t) |-> IF i = 1 \/ ~IsLetter(t[i - 1])
                                           THEN UpperChar(t[i]) ELSE LowerChar(t[i])]
         IN  <<[name |-> b \o Str(" ") \o title,
                url |-> BASE_URL \o Str("/model/") \o brand_slug \o Str("/") \o slug \o Str(".html")]>>
\* lines 647-660: the known URLs when the key matches, else the built URL
Candidates(b, m) ==
    LET brand_key == Strip(Lower(b))
        model_key == Strip(Lower(m))
    IN  IF KNOWN_MODEL_URLS.b = brand_key
           /\ (Contains(model_key, KNOWN_MODEL_URLS.m) \/ Contains(KNOWN_MODEL_URLS.m, model_key))
        THEN KNOWN_MODEL_URLS.entries
        ELSE search_brand(b, m)
\* demo_specs (lines 689-697; the same in demo_mode, lines 588-596)
demo_specs ==
    [k \in Tier2Fields |->
        CASE k = "year" -> Str("2016-2023")
          [] k = "engine" -> Str("2.5L TFSI")
          [] k = "power" -> Str("394 HP")
          [] k = "torque" -> Str("480 Nm")
          [] k = "weight" -> Str("1450 kg")
          [] k = "acceleration_0_100" -> Str("3.7 s")
          [] k = "top_speed" -> Str("250 km/h")]
\* bool(x) of an optional string / of what get_model_specs returned
IsGiven(x) == x # None /\ x # <<>>
IsSpecs(r) == r # NoneR /\ r # EmptyDict

\* what a fetch can come to: session.get raises (resp = NoneR), or a response
\* and, when it is blocked, what the browser returns
FetchOutcomes ==
    {[resp |-> NoneR, browser |-> NoneR],
     [resp |-> [status_code |-> 403, text |-> EmptyHtml], browser |-> NoneR],
     [resp |-> [status_code |-> 403, text |-> EmptyHtml], browser |-> BrowserPage],
     [resp |-> [status_code |-> 404, text |-> Page(<<RowPool[1]>>, <<>>, <<>>)], browser |-> NoneR],
     [resp |-> [status_code |-> 200, text |-> EmptyHtml], browser |-> NoneR],
     [resp |-> [status_code |-> 200, text |-> Page(<<>>, <<>>, <<>>)], browser |-> NoneR],
     [resp |-> [status_code |-> 200, text |-> Page(<<RowPool[1]>>, <<>>, <<Str("http://[bad")>>)],
      browser |-> NoneR],
     [resp |-> [status_code |-> 200, text |-> Page(<<RowPool[1], RowPool[7]>>, <<>>, <<>>)],
      browser |-> NoneR]}

InitMain ==
    /\ m_pc = "call"
    /\ args \in [demo : BOOLEAN,
                  brand : {None, <<>>, Str("Audi"), Str(" audi "), Str("BMW")},
                  model : {None, <<>>, Str("TT RS"), Str("tt"), Str("M3"), Str("tt_gen-2")}]
    /\ models = <<>> /\ m_i = 0 /\ selected_model = 0 /\ m_specs = NoneR
    /\ results = <<>> /\ posters = <<>>
    /\ SanIdle /\ FlagIdle /\ PosterIdle /\ ExtractIdle /\ ImageIdle /\ SelIdle

\* lines 627-629, demo_mode lines 586-599
MainDemo ==
    /\ m_pc = "call" /\ args.demo
    /\ posters' = Append(posters, [brand |-> Str("AUDI"), model |-> Str("TT RS"),
                                   specs |-> demo_specs])
    /\ m_pc' = "done"
    /\ UNCHANGED <<args, models, m_i, selected_model, m_specs, results>>
    /\ UNCHANGED notMain

\* lines 631-633 and 639-644: print the guidance and return
MainRefuse ==
    /\ m_pc = "call" /\ ~args.demo
    /\ ~IsGiven(args.brand) \/ ~IsGiven(args.model)
    /\ m_pc' = "done"
    /\ UNCHANGED <<args, models, m_i, selected_model, m_specs, results, posters>>
    /\ UNCHANGED notMain

\* lines 646-669
MainCandidates ==
    /\ m_pc = "call" /\ ~args.demo
    /\ IsGiven(args.brand) /\ IsGiven(args.model)
    /\ models' = Candidates(args.brand, args.model)
    /\ IF models' = <<>>
       THEN m_pc' = "done" /\ m_i' = m_i /\ selected_model' = selected_model
       ELSE m_pc' = "loop" /\ m_i' = 1 /\ selected_model' = 1
    /\ UNCHANGED <<args, m_specs, results, posters>>
    /\ UNCHANGED notMain

\* the mutant of MainTry without the break: the loop goes on after a success
MainTryNoBreak ==
    /\ m_pc = "loop"
    /\ \E o \in FetchOutcomes :
          m_specs' = get_model_specs(models[m_i].url, o.resp, o.browser)
    /\ results' = Append(results, m_specs')
    /\ selected_model' = IF IsSpecs(m_specs') THEN m_i ELSE selected_model
    /\ IF m_i = Len(models)
       THEN m_pc' = "poster" /\ m_i' = m_i
       ELSE m_pc' = "loop" /\ m_i' = m_i + 1
    /\ UNCHANGED <<args, models, posters>>
    /\ UNCHANGED notMain
\* one pass of the loop of lines 674-680
MainTry ==
    /\ m_pc = "loop"
    /\ \E o \in FetchOutcomes :
          m_specs' = get_model_specs(models[m_i].url, o.resp, o.browser)
    /\ results' = Append(results, m_specs')
    /\ selected_model' = IF IsSpecs(m_specs') THEN m_i ELSE selected_model
    /\ IF IsSpecs(m_specs') \/ m_i = Len(models)
       THEN m_pc' = "poster" /\ m_i' = m_i
       ELSE m_pc' = "loop" /\ m_i' = m_i + 1
    /\ UNCHANGED <<args, models, posters>>
    /\ UNCHANGED notMain

\* lines 682-701: generate_poster with the specs, or with demo_specs
MainPoster ==
    /\ m_pc = "poster"
    /\ posters' = Append(posters, [brand |-> args.brand, model |-> models[selected_model].name,
                                   specs |-> IF IsSpecs(m_specs) THEN m_specs ELSE demo_specs])
    /\ m_pc' = "done"
    /\ UNCHANGED <<args, models, m_i, selected_model, m_specs, results>>
    /\ UNCHANGED notMain

NextMain == MainDemo \/ MainRefuse \/ MainCandidates \/ MainTry \/ MainPoster
\* main runs to its end: every fetch is bounded by a timeout (lines 252 and 106)
SpecMain == InitMain /\ [][NextMain]_vars /\ WF_vars(NextMain)

\* C3: a run without --demo that is given a brand and a model ends, and ends
\* having written exactly one poster: with the specs of the candidate that
\* returned some, with demo_specs when none did. A run without brand or model
\* ends having made no fetch and written no poster.
C3_OnePosterOrRefusal ==
    /\ <>(m_pc = "done")
    /\ [](m_pc = "done" /\ ~args.demo =>
            IF IsGiven(args.brand) /\ IsGiven(args.model)
            THEN /\ Len(posters) = 1
                 /\ Len(results) >= 1
                 /\ \A i \in 1..Len(results) :
                       results[i] # NoneR => posters[1].specs = results[i]
                 /\ (\A i \in 1..Len(results) : results[i] = NoneR)
                       => posters[1].specs = demo_specs
            ELSE results = <<>> /\ posters = <<>>)
\* the first known URL gave nothing, the second gave specs, and they are on the poster
C3_Witness ==
    /\ m_pc = "done" /\ ~args.demo
    /\ Len(results) = 2 /\ results[1] = NoneR /\ results[2] # NoneR
    /\ Len(posters) = 1 /\ posters[1].specs = results[2]

\* ------------------------------------ generate_poster: the image panel
\* The box of lines 489-503 for the heights th = <<brand_height, model_height>>
\* of the two header texts: x, y its corner, w, h its box_w, box_h.
ImageBox(th) ==
    [x |-> margin + 20, y |-> margin + 50 + th[1] + 15 + th[2] + 40,
     w |-> width - 2 * margin - 40,
     h |-> (spec_area_top - 40) - (margin + 50 + th[1] + 15 + th[2] + 40)]
\* int(n * scale) for scale = num / den as a double: the floor of the exact
\* product, or one less when the exact product is whole and the double is not
IntOfScaled(n, num, den) ==
    {(n * num) \div den} \cup (IF (n * num) % den = 0 /\ num % den # 0 /\ (n * num) \div den > 0
                                THEN {((n * num) \div den) - 1} ELSE {})
\* the scaling that leaves out the 1.0 of min(box_w / iw, box_h / ih, 1.0)
ScaledSizesUpscaling(iw, ih, box) ==
    IF box.w * ih <= box.h * iw
    THEN IntOfScaled(iw, box.w, iw) \X IntOfScaled(ih, box.w, iw)
    ELSE IntOfScaled(iw, box.h, ih) \X IntOfScaled(ih, box.h, ih)
\* lines 500-501: the sizes <<nw, nh>> the build can compute
ScaledSizes(iw, ih, box) ==
    IF iw <= box.w /\ ih <= box.h THEN {<<iw, ih>>}
    ELSE IF box.w * ih <= box.h * iw
    THEN IntOfScaled(iw, box.w, iw) \X IntOfScaled(ih, box.w, iw)
    ELSE IntOfScaled(iw, box.h, ih) \X IntOfScaled(ih, box.h, ih)

\* the sides of the decoded images
ImageSides == (1..MaxSmallSide) \cup {45, 520, 893, 1040, 1041, 1800, 2080, 5000}

InitImage ==
    /\ im_pc = "call"
    /\ text_h \in {<<11, 11>>, <<47, 64>>}
    /\ im_size \in ImageSides \X ImageSides
    /\ car_img = <<0, 0>> /\ paste_xy = <<>>
    /\ SanIdle /\ FlagIdle /\ PosterIdle /\ ExtractIdle /\ MainIdle /\ SelIdle

\* lines 497-505: resize raises for an empty size, line 506 catches it
EmbedImage ==
    /\ im_pc = "call"
    /\ car_img' \in ScaledSizes(im_size[1], im_size[2], ImageBox(text_h))
    /\ paste_xy' = IF car_img'[1] >= 1 /\ car_img'[2] >= 1
                   THEN <<ImageBox(text_h).x + (ImageBox(text_h).w - car_img'[1]) \div 2,
                          ImageBox(text_h).y + (ImageBox(text_h).h - car_img'[2]) \div 2>>
                   ELSE <<>>
    /\ im_pc' = "done"
    /\ UNCHANGED <<text_h, im_size>>
    /\ UNCHANGED notImage

NextImage == EmbedImage
SpecImage == InitImage /\ [][NextImage]_vars

\* the embedded size is no larger than the image and the box, and each side is
\* the exact scaled side or at most one pixel less
C11_SizeFits ==
    LET box == ImageBox(text_h)
        iw == im_size[1]
        ih == im_size[2]
        nw == car_img[1]
        nh == car_img[2]
        \* scale = a / b
        a == IF iw <= box.w /\ ih <= box.h THEN 1 ELSE IF box.w * ih <= box.h * iw THEN box.w ELSE box.h
        b == IF iw <= box.w /\ ih <= box.h THEN 1 ELSE IF box.w * ih <= box.h * iw THEN iw ELSE ih
    IN  /\ nw <= iw /\ nh <= ih /\ nw <= box.w /\ nh <= box.h
        /\ nw * b <= iw * a /\ iw * a <= (nw + 1) * b
        /\ nh * b <= ih * a /\ ih * a <= (nh + 1) * b
\* the leftover space of the box on the two sides of the pasted image differs by
\* at most one pixel, across and down
C11_Centred ==
    LET box == ImageBox(text_h)
        left == paste_xy[1] - box.x
        right == (box.x + box.w) - (paste_xy[1] + car_img[1])
        top == paste_xy[2] - box.y
        bottom == (box.y + box.h) - (paste_xy[2] + car_img[2])
    IN  /\ left >= 0 /\ right >= 0 /\ top >= 0 /\ bottom >= 0
        /\ right - left \in {0, 1} /\ bottom - top \in {0, 1}
\* C11 as stated: every decoded image is embedded, at a size that fits and keeps
\* the aspect ratio up to truncation, centred in the panel within one pixel.
C11_Original ==
    im_pc = "done" => paste_xy # <<>> /\ C11_SizeFits /\ C11_Centred
\* C11 as amended: the computed size fits and keeps the aspect ratio up to
\* truncation; an image whose scaled width and height are both at least 1 is
\* pasted, centred within one pixel; one with a side that truncates to 0 is not
\* embedded.
C11_EmbeddedFitsAndCentred ==
    im_pc = "done" =>
        /\ C11_SizeFits
        /\ paste_xy # <<>> <=> (car_img[1] >= 1 /\ car_img[2] >= 1)
        /\ paste_xy # <<>> => C11_Centred
\* an image wider than the panel was scaled down and pasted
C11_Witness ==
    /\ im_pc = "done" /\ im_size[1] > ImageBox(text_h).w
    /\ car_img[1] < im_size[1] /\ paste_xy # <<>>

\* C12: generate_poster draws flag pixels if and only if the brand, trimmed and
\* lower-cased, is a key of BRAND_COUNTRY; every country of BRAND_COUNTRY has a
\* flag definition; and a poster of a brand outside the table is still saved.
C12_FlagIffBrandKnown ==
    /\ \A b \in BrandKeys : BRAND_COUNTRY[b] \in FlagCodes
    /\ p_pc \in {"save", "done"} => (flag_pixels # {} <=> Lower(Strip(brand)) \in BrandKeys)
    /\ p_pc \in {"call", "year", "mid", "right", "flag"} => flag_pixels = {}
    /\ p_pc = "done" => saved
\* the flag of a brand written with capitals and spaces was drawn
C12_Witness ==
    p_pc = "done" /\ brand = Str(" Volvo ") /\ flag_pixels # {} /\ saved

\* C13 as stated: one invocation of main fetches at most one page, and renders
\* and writes after it.
C13_Original ==
    /\ Len(results) <= 1
    /\ Len(posters) <= 1
    /\ posters # <<>> => m_pc = "done"
\* the image fetches of one call of generate_poster (lines 466 and 502-504)
C13_ImageFetches(p) == IF "image_url" \in DOMAIN p.specs THEN 1 ELSE 0
\* C13 as amended: main fetches the candidate pages in their order, one fetch
\* and one extraction pass for each, and goes on to the next candidate only when
\* the one before gave no specs, so at most one fetch for each candidate; all of
\* them come before the one render pass, which fetches at most one image and
\* writes one file, and nothing follows it.
C13_OneFetchPerCandidate ==
    /\ Len(results) <= Len(models)
    /\ Len(models) <= Len(KNOWN_MODEL_URLS.entries)
    /\ \A i \in 1..(Len(results) - 1) : ~IsSpecs(results[i])
    /\ m_pc = "loop" => Len(results) = m_i - 1
    /\ Len(posters) <= 1
    /\ posters # <<>> => m_pc = "done" /\ C13_ImageFetches(posters[1]) <= 1
    /\ m_pc = "done" /\ results # <<>> => Len(posters) = 1
\* both known URLs were fetched, neither gave specs, and one poster was written
C13_Witness ==
    /\ m_pc = "done" /\ Len(results) = 2
    /\ results[1] = NoneR /\ results[2] = NoneR /\ Len(posters) = 1

\* the string the year pattern is searched in (line 346)
C14_Searched == model_url \o Str(" ") \o TextContent(html)
\* where the first 4-digit, dash, 4-digit range of s starts (0 when there is none)
C14_FirstRange(s) == FirstOf({q \in 1..Len(s) : YearRangeAt(s, q) # 0})
\* C14: when Tier 1 set no year, Tier 2 sets year to "<start>-<end>" whenever a
\* range occurs anywhere in the URL-then-text string, to a single 4-digit year
\* only when no range occurs, and leaves year absent when neither occurs.
C14_RangeWhereverItOccurs ==
    g_pc = "tier3" /\ "year" \notin DOMAIN ScanRows(EmptyDict, html.rows) =>
        IF C14_FirstRange(C14_Searched) # 0
        THEN /\ "year" \in DOMAIN specs
             /\ specs["year"] =
                    SubSeq(C14_Searched, C14_FirstRange(C14_Searched),
                           C14_FirstRange(C14_Searched) + 3)
                    \o Str("-")
                    \o SubSeq(C14_Searched, YearRangeAt(C14_Searched, C14_FirstRange(C14_Searched)),
                              YearRangeAt(C14_Searched, C14_FirstRange(C14_Searched)) + 3)
        ELSE IF \E q \in 1..Len(C14_Searched) : DigitRun(C14_Searched, q) >= 4
        THEN "year" \in DOMAIN specs /\ Len(specs["year"]) = 4
        ELSE "year" \notin DOMAIN specs

\* where the first "<n> Nm" figure of s starts, and the first "<m> lb-ft" or
\* "<m> lb.ft" figure (0 when there is none)
C15_FirstNm(s) == FirstOf({q \in 1..Len(s) : TorqueUnitAt(s, q, Str("nm"))})
C15_FirstLbFt(s) ==
    FirstOf({q \in 1..Len(s) : \E u \in {Str("lb-ft"), Str("lb.ft")} : TorqueUnitAt(s, q, u)})
\* Tier 1 set no torque and the page text holds an Nm and an lb-ft figure
C15_BothFigures ==
    /\ g_pc = "tier3" /\ "torque" \notin DOMAIN ScanRows(EmptyDict, html.rows)
    /\ C15_FirstNm(TextContent(html)) # 0 /\ C15_FirstLbFt(TextContent(html)) # 0
\* C15 as stated: with both figures in the text the Tier 2 torque is "<n> Nm",
\* whichever of the two comes first.
C15_Original ==
    C15_BothFigures =>
        /\ "torque" \in DOMAIN specs
        /\ specs["torque"] = DigitsAt(TextContent(html), C15_FirstNm(TextContent(html))) \o Str(" Nm")
\* C15 as amended: with both figures in the text the Tier 2 torque is the figure
\* that comes first in the text: "<n> Nm" when the Nm figure starts before the
\* lb-ft figure, "<m> lb-ft" when the lb-ft figure starts before the Nm figure.
C15_FirstFigureWins ==
    C15_BothFigures =>
        /\ "torque" \in DOMAIN specs
        /\ specs["torque"] =
              IF C15_FirstNm(TextContent(html)) < C15_FirstLbFt(TextContent(html))
              THEN DigitsAt(TextContent(html), C15_FirstNm(TextContent(html))) \o Str(" Nm")
              ELSE DigitsAt(TextContent(html), C15_FirstLbFt(TextContent(html))) \o Str(" lb-ft")
\* the lb-ft figure comes first and is the torque
C15_Witness ==
    /\ C15_BothFigures
    /\ C15_FirstLbFt(TextContent(html)) < C15_FirstNm(TextContent(html))
    /\ specs["torque"] = Str("350 lb-ft")

\* the stripped source of the i-th image element of the page
C16_Src(i) == Strip(html.imgs[i])
\* the source is not empty and holds none of "logo", "icon", "pixel"
C16_PassesFilter(i) ==
    /\ C16_Src(i) # <<>>
    /\ \A w \in {Str("logo"), Str("icon"), Str("pixel")} : ~Contains(Lower(C16_Src(i)), w)
\* ... and its absolute URL holds the site's name or starts with "http"
C16_Qualifies(i) ==
    /\ C16_PassesFilter(i)
    /\ \/ Contains(urljoin(model_url, C16_Src(i)), Str("automobile-catalog.com"))
       \/ StartsAt(urljoin(model_url, C16_Src(i)), Str("http"), 1)
\* image_url is the absolute URL of the first image of the set is, or is absent
C16_IsFirstOf(is) ==
    IF is = {} THEN "image_url" \notin DOMAIN specs
    ELSE /\ "image_url" \in DOMAIN specs
         /\ specs["image_url"] = urljoin(model_url, C16_Src(FirstOf(is)))
\* C16 as stated, for a Tier 3 that ran to its end: image_url is the first image
\* whose source passes the filter; if there is none, the first image whose source
\* is longer than 10 characters; and it is absent when the page has no image.
C16_Original ==
    g_pc = "return" =>
        /\ IF \E i \in 1..Len(html.imgs) : C16_PassesFilter(i)
           THEN C16_IsFirstOf({i \in 1..Len(html.imgs) : C16_PassesFilter(i)})
           ELSE C16_IsFirstOf({i \in 1..Len(html.imgs) : Len(C16_Src(i)) > 10})
        /\ html.imgs = <<>> => "image_url" \notin DOMAIN specs
\* C16 as amended: for a Tier 3 that ran to its end, image_url is the first image
\* whose source passes the filter and whose absolute URL holds
\* "automobile-catalog.com" or starts with "http"; if there is none, the first
\* image whose source is longer than 10 characters; and it is absent when neither
\* exists. Tier 3 does not run to its end only when resolving a source raised, and
\* then get_model_specs returns None.
C16_FirstQualifyingImage ==
    /\ g_pc = "return" =>
          IF \E i \in 1..Len(html.imgs) : C16_Qualifies(i)
          THEN C16_IsFirstOf({i \in 1..Len(html.imgs) : C16_Qualifies(i)})
          ELSE C16_IsFirstOf({i \in 1..Len(html.imgs) : Len(C16_Src(i)) > 10})
    /\ g_exc = "image" =>
          /\ \E i \in 1..Len(html.imgs) : UrlJoinRaises(C16_Src(i))
          /\ g_pc = "done" /\ g_ret = NoneR
\* the first source that passes the filter is a data: URL, and the image of the
\* second element was taken
C16_Witness ==
    /\ g_pc = "return" /\ Len(html.imgs) = 2
    /\ C16_PassesFilter(1) /\ ~C16_Qualifies(1) /\ C16_Qualifies(2)
    /\ specs["image_url"] = urljoin(model_url, C16_Src(2))

\* what get_model_specs returned is None, or a non-empty mapping from the eight
\* field names to non-empty strings
C17_WellFormed ==
    \/ g_ret = NoneR
    \/ /\ g_ret # EmptyDict
       /\ DOMAIN g_ret \subseteq Tier2Fields \cup {"image_url"}
       /\ \A k \in DOMAIN g_ret : g_ret[k] # None /\ g_ret[k] # <<>> /\ Len(g_ret[k]) >= 1
\* C17: get_model_specs returns None or a non-empty mapping whose keys are among
\* year, engine, power, torque, weight, acceleration_0_100, top_speed, image_url
\* and whose values are non-empty strings; and it returns None exactly when no
\* tier extracted any field.
C17_NoneIffNothingExtracted ==
    g_pc = "done" => C17_WellFormed /\ (g_ret = NoneR <=> specs = EmptyDict)

\* ------------------------------------------------ _fetch_with_selenium
\* One read of driver.page_source: whether it holds "Just a moment" or
\* "Checking your browser", and its length.
PageSources ==
    {[type |-> "str", marker |-> FALSE, len |-> 0],
     [type |-> "str", marker |-> FALSE, len |-> LoadedLen],
     [type |-> "str", marker |-> FALSE, len |-> LoadedLen + 1],
     [type |-> "str", marker |-> TRUE, len |-> LoadedLen],
     [type |-> "str", marker |-> TRUE, len |-> LoadedLen + 1]}

InitSelenium ==
    /\ sel_pc = "call" /\ driver = "none" /\ poll = 0 /\ sel_html = NoneR
    /\ sel_reads = 0 /\ sel_ret = NoneR /\ quits = 0
    /\ SanIdle /\ FlagIdle /\ PosterIdle /\ ExtractIdle /\ MainIdle /\ ImageIdle

\* lines 97-103: _get_driver_uc, then _get_driver_plain, then give up
SelGetDriver ==
    /\ sel_pc = "call"
    /\ driver' \in {"uc", "plain", "none"}
    /\ sel_pc' = IF driver' = "none" THEN "finally" ELSE "get"
    /\ UNCHANGED <<poll, sel_html, sel_reads, sel_ret, quits>>
    /\ UNCHANGED notSel

\* line 105
SelGet ==
    /\ sel_pc = "get"
    /\ sel_pc' = "poll" /\ poll' = 1
    /\ UNCHANGED <<driver, sel_html, sel_reads, sel_ret, quits>>
    /\ UNCHANGED notSel

\* lines 127-130: driver.get or a read of page_source raises
SelRaise ==
    /\ sel_pc \in {"get", "poll", "reread", "final"}
    /\ sel_ret' = NoneR /\ sel_pc' = "finally"
    /\ UNCHANGED <<driver, poll, sel_html, sel_reads, quits>>
    /\ UNCHANGED notSel

\* lines 107-115: one round up to its first read
SelPoll ==
    /\ sel_pc = "poll"
    /\ \E h \in PageSources :
          /\ sel_html' = h
          /\ IF ~h.marker /\ h.len > LoadedLen
             THEN sel_pc' = "reread" /\ poll' = poll
             ELSE IF poll = PollRounds THEN sel_pc' = "final" /\ poll' = poll
             ELSE sel_pc' = "poll" /\ poll' = poll + 1
    /\ sel_reads' = sel_reads + 1
    /\ UNCHANGED <<driver, sel_ret, quits>>
    /\ UNCHANGED notSel

\* lines 116-119: the second read of a round
SelReread ==
    /\ sel_pc = "reread"
    /\ \E h \in PageSources :
          /\ sel_html' = h
          /\ IF ~h.marker THEN sel_ret' = h /\ sel_pc' = "finally" /\ poll' = poll
             ELSE /\ sel_ret' = sel_ret
                  /\ IF poll = PollRounds THEN sel_pc' = "final" /\ poll' = poll
                     ELSE sel_pc' = "poll" /\ poll' = poll + 1
    /\ sel_reads' = sel_reads + 1
    /\ UNCHANGED <<driver, quits>>
    /\ UNCHANGED notSel

\* the read after the loop that returns the page without looking for a marker
SelFinalUnchecked ==
    /\ sel_pc = "final"
    /\ \E h \in PageSources : sel_html' = h /\ sel_ret' = h
    /\ sel_reads' = sel_reads + 1 /\ sel_pc' = "finally"
    /\ UNCHANGED <<driver, poll, quits>>
    /\ UNCHANGED notSel
\* lines 120-126: the read after the loop
SelFinal ==
    /\ sel_pc = "final"
    /\ \E h \in PageSources :
          /\ sel_html' = h
          /\ sel_ret' = IF h.marker THEN NoneR ELSE h
    /\ sel_reads' = sel_reads + 1 /\ sel_pc' = "finally"
    /\ UNCHANGED <<driver, poll, quits>>
    /\ UNCHANGED notSel

\* lines 131-136: quit raises or not, and the call was made
SelFinally ==
    /\ sel_pc = "finally"
    /\ quits' = IF driver # "none" THEN quits + 1 ELSE quits
    /\ sel_pc' = "done"
    /\ UNCHANGED <<driver, poll, sel_html, sel_reads, sel_ret>>
    /\ UNCHANGED notSel

NextSelenium == SelGetDriver \/ SelGet \/ SelRaise \/ SelPoll \/ SelReread \/ SelFinal \/ SelFinally
SpecSelenium == InitSelenium /\ [][NextSelenium]_vars

====
